---------------------------- MODULE Spec2Model ----------------------------
(***************************************************************************)
(* A model of pyte's PDF reader (src/pyte/backend/pdf/reader.py):          *)
(*   - PNGReconstructor / paeth_predictor      (specification SpecPNG)     *)
(*   - the byte-level lexer and item parser    (specification SpecLex)     *)
(*   - construction: find_xref_offset,         (specification SpecReader)  *)
(*     parse_xref_table, parse_trailer                                     *)
(*   - the Document: __getitem__, __delitem__  (specification SpecDoc)     *)
(* Bytes are integers 0..255, a bytes object is a sequence of them, and    *)
(* the file cursor is the number of bytes before it.                       *)
(***************************************************************************)
EXTENDS Integers, Sequences, FiniteSets, TLC

VARIABLES
    \* PNGReconstructor
    last_values,    \* self._last_values
    png_source,     \* the row last fetched from self._source: [tag, row]
    png_orig,       \* the row that was encoded into png_source
    png_out,        \* out_row of the last read_from_source
    png_rows,       \* number of rows fetched so far
    \* PDFReader as a Document
    objects,        \* the indirect objects the file holds, by address
    _xref,          \* self._xref: identifier -> address
    cache,          \* the Document's own mapping: identifier -> object
    pos,            \* self.file.tell()
    next_obj,       \* the next object instance to be created
    doc_ops,        \* number of calls made on the Document
    returned,       \* identifier -> instances its resolutions returned
    deleted,        \* identifier -> "no", or how it was when deleted:
                    \* "fresh" (never resolved) or "resolved"
    doc_last,       \* the last call and its outcome
    \* PDFReader as a lexer and item parser
    file,           \* the bytes of self.file
    cur,            \* self.file.tell()
    lex_last,       \* the last call and its outcome
    \* PDFReader.__init__ (over file, cur and _xref)
    init_pc,             \* where __init__ is, "done", or "raised"
    init_error,          \* the exception that left __init__
    xref_offset,    \* the local xref_offset of __init__
    trailer,        \* the local trailer of __init__
    catalog,        \* self.catalog
    _max_identifier_in_file,
    layout,         \* the sections the file was rendered from
    chain           \* the offsets of the tables parse_xref_table returned

pngvars == <<last_values, png_source, png_orig, png_out, png_rows>>
docvars == <<objects, _xref, cache, pos, next_obj, doc_ops, returned,
             deleted, doc_last>>

lexvars == <<file, cur, lex_last>>
rdvars == <<init_pc, init_error, xref_offset, trailer, catalog,
            _max_identifier_in_file, layout, chain>>

vars == <<pngvars, docvars, lexvars, rdvars>>

\* what an operation of one part leaves alone: the other parts
png_others == <<docvars, lexvars, rdvars>>
doc_others == <<pngvars, lexvars, rdvars>>
lex_others == <<pngvars, docvars, rdvars>>

Abs(x) == IF x < 0 THEN -x ELSE x

(***************************************************************************)
(* PNGReconstructor                                                        *)
(***************************************************************************)
NONE == 0
SUB == 1
UP == 2
AVERAGE == 3
PAETH == 4

\* the row width given to PNGReconstructor.__init__ and the rows fetched
MaxColumns == 2
MaxRows == 2
\* byte values the rows are drawn from (small, large and wrapping ones)
ByteSamples == {0, 10, 20, 255}

paeth_predictor(a, b, c) ==
    LET p == a + b - c
        pa == Abs(p - a)
        pb == Abs(p - b)
        pc == Abs(p - c)
    IN  IF pa <= pb /\ pa <= pc THEN a
        ELSE IF pb <= pc THEN b
        ELSE c

\* the loops of read_from_source, one call per index; recon_a is the value
\* the loop carries, recon_c is never assigned after its initial 0
RECURSIVE recon_loop(_, _, _, _, _)
recon_loop(predictor, values, last, index, recon_a) ==
    IF index > Len(values) THEN values
    ELSE LET filt_x == values[index]
             recon_b == last[index]
             recon_c == 0
             x == CASE predictor = SUB -> (filt_x + recon_a) % 256
                    [] predictor = UP -> (filt_x + recon_b) % 256
                    [] predictor = AVERAGE ->
                           (filt_x + ((recon_a + recon_b) \div 2)) % 256
                    [] predictor = PAETH ->
                           (filt_x + paeth_predictor(recon_a, recon_b, recon_c)) % 256
                    [] OTHER -> filt_x
         IN  recon_loop(predictor, [values EXCEPT ![index] = x], last,
                        index + 1, x)

\* PNGReconstructor.read_from_source: the reconstructed row
reconstruct(predictor, row, last) ==
    IF predictor = NONE THEN row
    ELSE recon_loop(predictor, row, last, 1, 0)

\* The PNG filter a writer applies (the inverse the round trip is stated
\* against): stored byte = original - prediction(left, above, upper-left).
PngPrediction(tag, a, b, c) ==
    CASE tag = SUB -> a
      [] tag = UP -> b
      [] tag = AVERAGE -> (a + b) \div 2
      [] tag = PAETH -> paeth_predictor(a, b, c)
      [] OTHER -> 0

PngEncode(tag, orig, prev) ==
    [i \in 1..Len(orig) |->
        LET a == IF i = 1 THEN 0 ELSE orig[i - 1]
            b == prev[i]
            c == IF i = 1 THEN 0 ELSE prev[i - 1]
        IN  (orig[i] - PngPrediction(tag, a, b, c)) % 256]

PngRowsOf(n) == [1..n -> ByteSamples]

PngInit ==
    /\ \E columns \in 1..MaxColumns : last_values = [i \in 1..columns |-> 0]
    /\ png_source = [tag |-> NONE, row |-> <<>>]
    /\ png_orig = <<>>
    /\ png_out = <<>>
    /\ png_rows = 0

\* one underflow of the FIFO buffer: a row is fetched and reconstructed
read_from_source ==
    /\ png_rows < MaxRows
    /\ \E predictor \in {NONE, SUB, UP, AVERAGE, PAETH},
          orig \in PngRowsOf(Len(last_values)) :
          LET row == PngEncode(predictor, orig, last_values)
              values == reconstruct(predictor, row, last_values)
          IN  /\ png_source' = [tag |-> predictor, row |-> row]
              /\ png_orig' = orig
              /\ png_out' = values
              /\ last_values' = values
    /\ png_rows' = png_rows + 1
    /\ UNCHANGED png_others

PngNext == read_from_source

\* C7: decoding a row encoded with any of the five PNG filters against the
\* previous reconstructed row gives back the original row, and the
\* previous-row state is the reconstructed row.
C7_RoundTrip ==
    png_rows > 0 => (png_out = png_orig /\ last_values = png_orig)


(***************************************************************************)
(* PDFReader as a Document: __getitem__, __delitem__, parse_indirect_object *)
(* The file is taken at the level of its indirect objects: the object with  *)
(* header "i g obj" starts at Address(i); its value is one item that may be *)
(* a stream whose Length is a reference, resolved through the Document      *)
(* while the stream is read; the object may lack its endobj keyword.        *)
(***************************************************************************)
MaxIdentifier == 2
MaxOps == 3
\* the interpreter's bound on nested calls (sys.getrecursionlimit(), scaled)
RecursionLimit == 3

Identifiers == 1..MaxIdentifier
Address(i) == 10 * i
Addresses == {Address(i) : i \in Identifiers}
\* length_ref = 0: the value holds no reference that parsing resolves
\* the files considered: any Length references, at most one broken object
ObjectsInFile ==
    {f \in [Addresses -> [length_ref : {0} \cup Identifiers, endobj : BOOLEAN]] :
        Cardinality({a \in Addresses : ~f[a].endobj}) <= 1}
\* the tables considered: an identifier is absent, or maps to its object, or
\* to the next one (a table out of step with the file)
XrefTables ==
    UNION {{x \in [present -> Addresses] :
               \A i \in present :
                   x[i] \in {Address(i), Address((i % MaxIdentifier) + 1)}} :
           present \in SUBSET Identifiers}
header_identifier(address) == address \div 10
\* where construction leaves the cursor: behind the newest trailer dictionary
AfterTrailer == Address(MaxIdentifier + 1)

\* a mapping (dict) without one key
Without(f, k) == [x \in DOMAIN f \ {k} |-> f[x]]
\* a mapping (dict) with one key set
With(f, k, v) == [x \in DOMAIN f \cup {k} |-> IF x = k THEN v ELSE f[x]]

\* cos.Document.__getitem__ / __setitem__ / __delitem__ (the base class's
\* mapping): a lookup raises KeyError for a missing key
super_contains(c, identifier) == identifier \in DOMAIN c
super_setitem(c, identifier, obj) == With(c, identifier, obj)
super_delitem(c, identifier) == Without(c, identifier)

Raise(st, error) == [st |-> st, status |-> error, identifier |-> 0, obj |-> 0]
Return(st, identifier, obj) ==
    [st |-> st, status |-> "ok", identifier |-> identifier, obj |-> obj]

\* line 301: self.file.seek(restore_pos)
seek_restore_skip(st, restore_pos) == [st EXCEPT !.io = @ + 1]
seek_restore(st, restore_pos) ==
    [st EXCEPT !.pos = restore_pos, !.io = @ + 1]

\* line 54: self[identifier] = obj
store_skip(st, identifier, obj) == st
store(st, identifier, obj) ==
    [st EXCEPT !.cache = super_setitem(@, identifier, obj)]

RECURSIVE getitem(_, _, _)
RECURSIVE parse_indirect_object(_, _, _)

\* next_item(indirect=True) on the value of the object at address: a stream
\* with an indirect Length resolves it (line 180) after the stream keyword
object_value(st, address, depth) ==
    LET o == objects[address]
        made(s) == Return([s EXCEPT !.pos = address + 3, !.io = @ + 1,
                                    !.next_obj = @ + 1], 0, s.next_obj)
    IN  IF o.length_ref = 0 THEN made(st)
        ELSE LET s1 == [st EXCEPT !.pos = address + 2, !.io = @ + 1]
                 r == IF depth + 1 > RecursionLimit
                      THEN Raise(s1, "RecursionError")
                      ELSE getitem(s1, o.length_ref, depth + 1)
             IN  IF r.status # "ok" THEN r ELSE made(r.st)

parse_indirect_object(st, address, depth) ==
    LET restore_pos == st.pos
        s1 == [st EXCEPT !.pos = address + 1, !.io = @ + 2]
        r == object_value(s1, address, depth)
    IN  IF r.status # "ok" THEN r
        ELSE IF ~objects[address].endobj
        THEN Raise(r.st, "AssertionError")
        ELSE Return(seek_restore([r.st EXCEPT !.pos = address + 4,
                                              !.io = @ + 1], restore_pos),
                    header_identifier(address), r.obj)

\* PDFReader.__getitem__
getitem(st, identifier, depth) ==
    IF super_contains(st.cache, identifier)
    THEN Return([st EXCEPT !.events = @ \cup {<<identifier, st.cache[identifier]>>}],
                identifier, st.cache[identifier])
    ELSE IF identifier \notin DOMAIN _xref THEN Raise(st, "KeyError")
    ELSE LET r == parse_indirect_object(st, _xref[identifier], depth)
         IN  IF r.status # "ok" THEN r
             ELSE IF r.identifier # identifier
             THEN Raise(r.st, "AssertionError")
             ELSE Return([store(r.st, identifier, r.obj)
                             EXCEPT !.events = @ \cup {<<identifier, r.obj>>}],
                         identifier, r.obj)

\* line 58: del self._xref[identifier]
del_xref_skip(x, identifier) == x
del_xref(x, identifier) == Without(x, identifier)

\* PDFReader.__delitem__: [xref, cache, status]
delitem_cache_first(x, c, identifier) ==
    IF ~super_contains(c, identifier)
    THEN [xref |-> x, cache |-> c, status |-> "KeyError"]
    ELSE IF identifier \notin DOMAIN x
    THEN [xref |-> x, cache |-> super_delitem(c, identifier),
          status |-> "KeyError"]
    ELSE [xref |-> Without(x, identifier),
          cache |-> super_delitem(c, identifier), status |-> "ok"]
delitem(x, c, identifier) ==
    IF identifier \notin DOMAIN x
    THEN [xref |-> x, cache |-> c, status |-> "KeyError"]
    ELSE IF ~super_contains(c, identifier)
    THEN [xref |-> del_xref(x, identifier), cache |-> c,
          status |-> "KeyError"]
    ELSE [xref |-> del_xref(x, identifier),
          cache |-> super_delitem(c, identifier), status |-> "ok"]

NoCall == [op |-> "none", identifier |-> 0, status |-> "ok", obj |-> 0,
           io |-> 0, pos_before |-> 0, seen_before |-> FALSE,
           deleted_before |-> "no", cached_before |-> FALSE, events |-> {}]

DocInit ==
    /\ objects \in ObjectsInFile
    /\ _xref \in XrefTables
    /\ cache = <<>>
    /\ pos = AfterTrailer
    /\ next_obj = 1
    /\ doc_ops = 0
    /\ returned = [i \in Identifiers |-> {}]
    /\ deleted = [i \in Identifiers |-> "no"]
    /\ doc_last = NoCall

\* document[identifier]
Get(identifier) ==
    /\ doc_ops < MaxOps
    /\ LET r == getitem([cache |-> cache, pos |-> pos, next_obj |-> next_obj,
                         io |-> 0, events |-> {}], identifier, 1)
       IN  /\ cache' = r.st.cache
           /\ pos' = r.st.pos
           /\ next_obj' = r.st.next_obj
           /\ returned' = [i \in Identifiers |->
                  returned[i] \cup {e[2] : e \in {d \in r.st.events : d[1] = i}}]
           /\ doc_last' = [op |-> "get", identifier |-> identifier,
                           status |-> r.status, obj |-> r.obj,
                           io |-> r.st.io, pos_before |-> pos,
                           seen_before |-> returned[identifier] # {},
                           deleted_before |-> deleted[identifier],
                           cached_before |-> identifier \in DOMAIN cache,
                           events |-> r.st.events]
    /\ doc_ops' = doc_ops + 1
    /\ UNCHANGED <<objects, _xref, deleted>>
    /\ UNCHANGED doc_others

\* del document[identifier]
Delete(identifier) ==
    /\ doc_ops < MaxOps
    /\ LET r == delitem(_xref, cache, identifier)
       IN  /\ _xref' = r.xref
           /\ cache' = r.cache
           /\ doc_last' = [op |-> "delete", identifier |-> identifier,
                           status |-> r.status, obj |-> 0, io |-> 0,
                           pos_before |-> pos,
                           seen_before |-> returned[identifier] # {},
                           deleted_before |-> deleted[identifier],
                           cached_before |-> identifier \in DOMAIN cache,
                           events |-> {}]
           /\ deleted' = IF identifier \notin DOMAIN _xref THEN deleted
                         ELSE [deleted EXCEPT ![identifier] =
                                  IF returned[identifier] # {}
                                  THEN "resolved" ELSE "fresh"]
    /\ returned' = [returned EXCEPT ![identifier] = {}]
    /\ doc_ops' = doc_ops + 1
    /\ UNCHANGED <<objects, pos, next_obj>>
    /\ UNCHANGED doc_others

DocNext ==
    \/ \E identifier \in Identifiers : Get(identifier)
    \/ \E identifier \in Identifiers : Delete(identifier)

(***************************************************************************)
(* The lexer and the item parser, byte by byte.  A result is a record      *)
(* [c, status, value]: the cursor afterwards, "ok" or the exception raised *)
(* ("hang" when a loop repeats an iteration that changes nothing, which    *)
(* the code then does forever), and what was returned.                     *)
(***************************************************************************)
\* cos.WHITESPACE and cos.DELIMITERS, byte strings
WHITESPACE == {0, 9, 10, 12, 13, 32}
DELIMITERS == {40, 41, 60, 62, 91, 93, 123, 125, 47, 37}
\* line 256: b'+-.0123456789'
NUMBER_CHARS == {43, 45, 46} \cup (48..57)
\* line 200: escape_chars = b'nrtbf()\\'
escape_chars == {110, 114, 116, 98, 102, 40, 41, 92}
DIGITS == 48..57
LF == 10
CR == 13
HASH == 35
LPAREN == 40
RPAREN == 41
SLASH == 47
LESS == 60
GREATER == 62
LBRACKET == 91
BACKSLASH == 92
RBRACKET == 93
KEYWORD_R == <<82>>
KEYWORD_true == <<116, 114, 117, 101>>
KEYWORD_false == <<102, 97, 108, 115, 101>>
KEYWORD_null == <<110, 117, 108, 108>>
KEYWORD_stream == <<115, 116, 114, 101, 97, 109>>
KEYWORD_endstream == <<101, 110, 100, 115, 116, 114, 101, 97, 109>>
\* line 358: the marker every file a PDFReader was built over ends with
EOF_MARKER == <<10, 37, 37, 69, 79, 70>>

\* `char in b'...'` for a bytes object char of length 0 or 1: the empty
\* bytes object is in every bytes object
BytesIn(char, bytes) == char = <<>> \/ char[1] \in bytes

\* self.file.read(n) at cursor c: short at the end of the file
Read(c, n) ==
    LET last == IF n >= 0 /\ c.p + n <= Len(file) THEN c.p + n ELSE Len(file)
        data == SubSeq(file, c.p + 1, last)
    IN  [data |-> data,
         c |-> [p |-> c.p + Len(data), eof |-> c.eof \/ Len(data) < n]]
\* self.file.seek(-1, SEEK_CUR)
SeekBack(c) == [c EXCEPT !.p = @ - 1]
\* self.file.seek(position)
SeekTo(c, position) == [c EXCEPT !.p = position]

Result(c, status, value) == [c |-> c, status |-> status, value |-> value]
NoValue == [kind |-> "none"]

\* one statement after another: Body applied to the value of v
Bind(v, Body(_)) == CHOOSE out \in {Body(b) : b \in {v}} : TRUE

\* PDFReader.jump_to_next_line
RECURSIVE jump_to_next_line(_)
jump_to_next_line(c) ==
    Bind(Read(c, 1), LAMBDA r :
        IF r.data = <<LF>> THEN Result(r.c, "ok", NoValue)
        ELSE IF r.data = <<CR>>
        THEN Bind(Read(r.c, 1), LAMBDA n :
                 Result(IF n.data # <<LF>> THEN SeekBack(n.c) ELSE n.c,
                        "ok", NoValue))
        ELSE IF r.data = <<>> THEN Result(r.c, "hang", NoValue)
        ELSE jump_to_next_line(r.c))

\* PDFReader.eat_whitespace
RECURSIVE eat_whitespace(_)
eat_whitespace(c) ==
    Bind(Read(c, 1), LAMBDA r :
        IF ~BytesIn(r.data, WHITESPACE)
        THEN Result(SeekBack(r.c), "ok", NoValue)
        ELSE IF r.data = <<>> THEN Result(r.c, "hang", NoValue)
        ELSE eat_whitespace(r.c))

\* the loop of next_token (lines 91-96)
RECURSIVE next_token_loop(_, _)
next_token_loop(c, token) ==
    Bind(Read(c, 1), LAMBDA r :
        IF BytesIn(r.data, DELIMITERS \cup WHITESPACE)
        THEN Result(SeekBack(r.c), "ok", token)
        ELSE next_token_loop(r.c, token \o r.data))

\* PDFReader.next_token: the value is the token, a bytes object
next_token(c) ==
    Bind(Read(c, 1), LAMBDA r :
        IF r.data = <<LESS>> \/ r.data = <<GREATER>>
        THEN Bind(Read(r.c, 1), LAMBDA n :
                 IF n.data = r.data THEN Result(n.c, "ok", r.data \o n.data)
                 ELSE Result(SeekBack(n.c), "ok", r.data))
        ELSE IF BytesIn(r.data, DELIMITERS \cup WHITESPACE)
        THEN Result(r.c, "ok", r.data)
        ELSE next_token_loop(r.c, r.data))

\* int(b) for a bytes object over NUMBER_CHARS: a sign, then digits
IsIntegerLiteral(s) ==
    LET body == IF s # <<>> /\ s[1] \in {43, 45} THEN Tail(s) ELSE s
    IN  body # <<>> /\ \A i \in 1..Len(body) : body[i] \in DIGITS
\* float(b) for a bytes object over NUMBER_CHARS: a sign, then digits with
\* at most one point among them
IsRealLiteral(s) ==
    LET body == IF s # <<>> /\ s[1] \in {43, 45} THEN Tail(s) ELSE s
    IN  /\ \A i \in 1..Len(body) : body[i] \in DIGITS \cup {46}
        /\ Cardinality({i \in 1..Len(body) : body[i] = 46}) <= 1
        /\ \E i \in 1..Len(body) : body[i] \in DIGITS
RECURSIVE DigitsValue(_)
DigitsValue(s) ==
    IF s = <<>> THEN 0
    ELSE 10 * DigitsValue(SubSeq(s, 1, Len(s) - 1)) + (s[Len(s)] - 48)
IntValue(s) ==
    IF s[1] = 45 THEN 0 - DigitsValue(Tail(s))
    ELSE IF s[1] = 43 THEN DigitsValue(Tail(s))
    ELSE DigitsValue(s)

\* the loop of read_number (lines 254-259)
RECURSIVE read_number_loop(_, _)
read_number_loop(c, number_string) ==
    Bind(Read(c, 1), LAMBDA r :
        IF ~BytesIn(r.data, NUMBER_CHARS)
        THEN Result(SeekBack(r.c), "ok", number_string)
        ELSE IF r.data = <<>> THEN Result(r.c, "hang", number_string)
        ELSE read_number_loop(r.c, number_string \o r.data))

\* lines 260-264: cos.Integer(number_string), else cos.Real(number_string)
number_of(n, indirect) ==
    IF n.status # "ok" THEN Result(n.c, n.status, NoValue)
    ELSE IF IsIntegerLiteral(n.value)
    THEN Result(n.c, "ok", [kind |-> "Integer", value |-> IntValue(n.value),
                            text |-> n.value, indirect |-> indirect])
    ELSE IF IsRealLiteral(n.value)
    THEN Result(n.c, "ok", [kind |-> "Real", text |-> n.value,
                            indirect |-> indirect])
    ELSE Result(n.c, "ValueError", NoValue)

\* PDFReader.read_number
read_number(c, indirect) ==
    Bind(eat_whitespace(c), LAMBDA w :
        IF w.status # "ok" THEN w
        ELSE Bind(read_number_loop(w.c, <<>>), LAMBDA n :
                 number_of(n, indirect)))

\* int(char, 8) for a bytes object of digits; -1 stands for ValueError
RECURSIVE OctalValue(_)
OctalValue(s) ==
    IF s = <<>> THEN 0
    ELSE Bind(OctalValue(SubSeq(s, 1, Len(s) - 1)), LAMBDA high :
             IF s[Len(s)] > 55 \/ high < 0 THEN -1
             ELSE 8 * high + (s[Len(s)] - 48))

IsDigit(char) == char # <<>> /\ char[1] \in DIGITS

\* lines 216-222: up to two more digits after a backslash and a digit
octal_digits(c, char) ==
    Bind(Read(c, 1), LAMBDA e1 :
        IF ~IsDigit(e1.data) THEN Result(SeekBack(e1.c), "ok", char)
        ELSE Bind(Read(e1.c, 1), LAMBDA e2 :
                 IF ~IsDigit(e2.data)
                 THEN Result(SeekBack(e2.c), "ok", char \o e1.data)
                 ELSE Result(e2.c, "ok", char \o e1.data \o e2.data)))

\* PDFReader.read_string, from behind the opening parenthesis; the value is
\* the decoded bytes
RECURSIVE read_string_loop(_, _, _, _)
read_string_loop(c, string, escape, parenthesis_level) ==
    Bind(Read(c, 1), LAMBDA r :
        IF escape
        THEN IF BytesIn(r.data, escape_chars)
             THEN read_string_loop(r.c, string \o r.data, FALSE, parenthesis_level)
             ELSE IF r.data = <<LF>>
             THEN read_string_loop(r.c, string, FALSE, parenthesis_level)
             ELSE IF r.data = <<CR>>
             THEN \* the byte read next never equals the str '\n'
                  read_string_loop(SeekBack(Read(r.c, 1).c), string, FALSE,
                                   parenthesis_level)
             ELSE IF IsDigit(r.data)
             THEN Bind(octal_digits(r.c, r.data), LAMBDA d :
                      Bind(OctalValue(d.value), LAMBDA v :
                          IF v < 0 THEN Result(d.c, "ValueError", NoValue)
                          ELSE IF v > 255
                          THEN Result(d.c, "struct.error", NoValue)
                          ELSE read_string_loop(d.c, string \o <<v>>, FALSE,
                                                parenthesis_level)))
             ELSE read_string_loop(r.c, string \o <<BACKSLASH>> \o r.data,
                                   FALSE, parenthesis_level)
        ELSE IF r.data = <<BACKSLASH>>
        THEN read_string_loop(r.c, string, TRUE, parenthesis_level)
        ELSE IF r.data = <<LPAREN>>
        THEN read_string_loop(r.c, string, FALSE, parenthesis_level + 1)
        ELSE IF r.data = <<RPAREN>> /\ parenthesis_level > 0
        THEN read_string_loop(r.c, string, FALSE, parenthesis_level - 1)
        ELSE IF r.data = <<RPAREN>>
        THEN Result(r.c, "ok", string)
        ELSE IF r.data = <<>> THEN Result(r.c, "hang", NoValue)
        ELSE read_string_loop(r.c, string \o r.data, FALSE, parenthesis_level))

read_string(c, indirect) ==
    Bind(read_string_loop(c, <<>>, FALSE, 0), LAMBDA r :
        IF r.status # "ok" THEN r
        ELSE Result(r.c, "ok", [kind |-> "String", bytes |-> r.value,
                                indirect |-> indirect]))

HexDigitValue(b) ==
    IF b \in 48..57 THEN b - 48
    ELSE IF b \in 65..70 THEN b - 55
    ELSE IF b \in 97..102 THEN b - 87
    ELSE -1
\* binascii.unhexlify; <<-1>> stands for binascii.Error
unhexlify(s) ==
    IF \E i \in 1..Len(s) : HexDigitValue(s[i]) < 0 THEN <<-1>>
    ELSE [i \in 1..(Len(s) \div 2) |->
             16 * HexDigitValue(s[2 * i - 1]) + HexDigitValue(s[2 * i])]

\* PDFReader.read_hex_string, from behind the opening '<'
RECURSIVE read_hex_string_loop(_, _)
read_hex_string_loop(c, hex_string) ==
    Bind(eat_whitespace(c), LAMBDA w :
        IF w.status # "ok" THEN w
        ELSE Bind(Read(w.c, 1), LAMBDA r :
                 IF r.data = <<GREATER>> THEN Result(r.c, "ok", hex_string)
                 ELSE read_hex_string_loop(r.c, hex_string \o r.data)))

read_hex_string(c, indirect) ==
    Bind(read_hex_string_loop(c, <<>>), LAMBDA r :
        IF r.status # "ok" THEN r
        ELSE Bind(unhexlify(IF Len(r.value) % 2 > 0 THEN r.value \o <<48>>
                            ELSE r.value), LAMBDA bytes :
                 IF bytes = <<-1>> THEN Result(r.c, "binascii.Error", NoValue)
                 ELSE Result(r.c, "ok", [kind |-> "HexString", bytes |-> bytes,
                                         indirect |-> indirect])))

\* PDFReader.read_name, from behind the '/'; a '#' is followed by two bytes
\* that int(_, 16) converts (taken here on two hexadecimal digits only)
RECURSIVE read_name_loop(_, _)
read_name_loop(c, name) ==
    Bind(Read(c, 1), LAMBDA r :
        IF BytesIn(r.data, DELIMITERS \cup WHITESPACE)
        THEN Result(SeekBack(r.c), "ok", name)
        ELSE IF r.data = <<HASH>>
        THEN Bind(Read(r.c, 2), LAMBDA char_code :
                 Bind(IF Len(char_code.data) = 2 THEN unhexlify(char_code.data)
                      ELSE <<-1>>, LAMBDA v :
                     IF v = <<-1>> THEN Result(char_code.c, "ValueError", NoValue)
                     ELSE IF v[1] > 127
                     THEN Result(char_code.c, "UnicodeEncodeError", NoValue)
                     ELSE read_name_loop(char_code.c, name \o v)))
        ELSE read_name_loop(r.c, name \o r.data))

read_name(c, indirect) ==
    Bind(read_name_loop(c, <<>>), LAMBDA r :
        IF r.status # "ok" THEN r
        ELSE Result(r.c, "ok", [kind |-> "Name", bytes |-> r.value,
                                indirect |-> indirect]))

\* lines 133-134: the lookahead failed, self.file.seek(restore_pos)
restore_after_lookahead_skip(c, restore_pos) == c
restore_after_lookahead(c, restore_pos) == SeekTo(c, restore_pos)

\* line 129: isinstance(generation, cos.Integer) and r == b'R'
is_reference_any_number(generation, r) == r = KEYWORD_R
is_reference(generation, r) == generation.kind = "Integer" /\ r = KEYWORD_R

\* lines 125-134: the lookahead behind the Integer item
reference_lookahead(item, c) ==
    Bind(read_number(c, FALSE), LAMBDA generation :
        IF generation.status = "hang" THEN generation
        ELSE IF generation.status = "ValueError"
        THEN Result(restore_after_lookahead(generation.c, c.p), "ok", item)
        ELSE Bind(eat_whitespace(generation.c), LAMBDA w :
                 IF w.status # "ok" THEN w
                 ELSE Bind(next_token(w.c), LAMBDA r :
                          IF is_reference(generation.value, r.value)
                          THEN Result(r.c, "ok",
                                      [kind |-> "Reference",
                                       identifier |-> item.value,
                                       generation |-> generation.value.value])
                          ELSE Result(restore_after_lookahead(r.c, c.p),
                                      "ok", item))))

\* lines 120-134: a number, or an indirect reference
number_or_reference(c, restore_pos, indirect) ==
    Bind(read_number(SeekTo(c, restore_pos), indirect), LAMBDA first :
        IF first.status # "ok" THEN first
        ELSE IF first.value.kind # "Integer" THEN first
        ELSE reference_lookahead(first.value, first.c))

Lookup(entries, key) ==
    LET hits == {i \in 1..Len(entries) : entries[i][1] = key}
    IN  IF hits = {} THEN NoValue
        ELSE entries[CHOOSE i \in hits : \A j \in hits : j <= i][2]

RECURSIVE next_item(_, _)
RECURSIVE read_array_loop(_, _)
RECURSIVE read_dictionary_loop(_, _)

\* PDFReader.read_array, from behind the '['
read_array_loop(c, array) ==
    Bind(eat_whitespace(c), LAMBDA w :
        IF w.status # "ok" THEN w
        ELSE Bind(Read(w.c, 1), LAMBDA token :
                 IF token.data = <<RBRACKET>> THEN Result(token.c, "ok", array)
                 ELSE Bind(next_item(SeekBack(token.c), FALSE), LAMBDA item :
                          IF item.status # "ok" THEN item
                          ELSE read_array_loop(item.c,
                                               Append(array, item.value)))))

read_array(c, indirect) ==
    Bind(read_array_loop(c, <<>>), LAMBDA r :
        IF r.status # "ok" THEN r
        ELSE Result(r.c, "ok", [kind |-> "Array", items |-> r.value,
                                indirect |-> indirect]))

\* lines 169-175: the key/value pairs up to '>>'
read_dictionary_loop(c, entries) ==
    Bind(eat_whitespace(c), LAMBDA w :
        IF w.status # "ok" THEN w
        ELSE Bind(next_token(w.c), LAMBDA token :
                 IF token.value = <<GREATER, GREATER>>
                 THEN Result(token.c, "ok", entries)
                 ELSE Bind(read_name(token.c, FALSE), LAMBDA key :
                          IF key.status # "ok" THEN key
                          ELSE Bind(next_item(key.c, FALSE), LAMBDA value :
                                   IF value.status # "ok" THEN value
                                   ELSE read_dictionary_loop(value.c,
                                            Append(entries, <<key.value.bytes,
                                                              value.value>>))))))

\* Length, the bytes b'Length'
NAME_Length == <<76, 101, 110, 103, 116, 104>>

\* lines 179-186: the stream behind the dictionary.  A Length that is a
\* Reference is resolved through the Document (see object_value); here it
\* ends the parse with status "resolve".  int() of a Length that is no
\* Integer is taken as a TypeError.
read_stream(c, entries) ==
    Bind(jump_to_next_line(c), LAMBDA line :
        Bind(Lookup(entries, NAME_Length), LAMBDA length :
            IF line.status # "ok" THEN line
            ELSE IF length.kind = "none" THEN Result(line.c, "KeyError", NoValue)
            ELSE IF length.kind = "Reference"
            THEN Result(line.c, "resolve", NoValue)
            ELSE IF length.kind # "Integer"
            THEN Result(line.c, "TypeError", NoValue)
            ELSE Bind(Read(line.c, length.value), LAMBDA data :
                     Bind(eat_whitespace(data.c), LAMBDA w :
                         IF w.status # "ok" THEN w
                         ELSE Bind(next_token(w.c), LAMBDA endstream :
                                  IF endstream.value # KEYWORD_endstream
                                  THEN Result(endstream.c, "AssertionError",
                                              NoValue)
                                  ELSE Result(endstream.c, "ok",
                                              [kind |-> "Stream",
                                               entries |-> entries,
                                               data |-> data.data,
                                               indirect |-> FALSE]))))))

\* PDFReader.read_dictionary_or_stream, from behind the '<<'.  The filter
\* and the dictionary subclass are looked up in registries outside this
\* file.
read_dictionary_or_stream(c, indirect) ==
    Bind(read_dictionary_loop(c, <<>>), LAMBDA d :
        IF d.status # "ok" THEN d
        ELSE Bind(eat_whitespace(d.c), LAMBDA w :
                 IF w.status # "ok" THEN w
                 ELSE Bind(next_token(w.c), LAMBDA token :
                          IF token.value # KEYWORD_stream
                          THEN Result(SeekTo(token.c, w.c.p), "ok",
                                      [kind |-> "Dictionary",
                                       entries |-> d.value,
                                       indirect |-> indirect])
                          ELSE read_stream(token.c, d.value))))

\* PDFReader.next_item
next_item(c, indirect) ==
    Bind(eat_whitespace(c), LAMBDA w :
        IF w.status # "ok" THEN w
        ELSE Bind(next_token(w.c), LAMBDA t :
                 IF t.value = <<LPAREN>> THEN read_string(t.c, indirect)
                 ELSE IF t.value = <<LESS>> THEN read_hex_string(t.c, indirect)
                 ELSE IF t.value = <<LBRACKET>> THEN read_array(t.c, indirect)
                 ELSE IF t.value = <<SLASH>> THEN read_name(t.c, indirect)
                 ELSE IF t.value = <<LESS, LESS>>
                 THEN read_dictionary_or_stream(t.c, indirect)
                 ELSE IF t.value = KEYWORD_true
                 THEN Result(t.c, "ok", [kind |-> "Boolean", value |-> TRUE,
                                         indirect |-> indirect])
                 ELSE IF t.value = KEYWORD_false
                 THEN Result(t.c, "ok", [kind |-> "Boolean", value |-> FALSE,
                                         indirect |-> indirect])
                 ELSE IF t.value = KEYWORD_null
                 THEN Result(t.c, "ok", [kind |-> "Null", indirect |-> indirect])
                 ELSE number_or_reference(t.c, w.c.p, indirect)))

\* the bodies the files are made of: bytes of numbers, references and
\* tokens around them, and bytes of literal strings
MaxBody == 5
ItemBytes == {55, 46, 82, 32, 93}
StringBytes == {40, 41, 92, 97}
Bodies(bytes) == UNION {[1..n -> bytes] : n \in 0..MaxBody}

NoLexCall == [op |-> "none", start |-> 0, status |-> "ok", value |-> NoValue,
              eof |-> FALSE]

LexInit ==
    /\ \E body \in Bodies(ItemBytes) \cup Bodies(StringBytes) :
          file = body \o EOF_MARKER
    /\ cur = 0
    /\ lex_last = NoLexCall

\* a call made with the cursor at cur; a call that raised or hangs ends
\* the parse
LexCall(op, r) ==
    /\ lex_last.status = "ok"
    /\ cur' = r.c.p
    /\ lex_last' = [op |-> op, start |-> cur, status |-> r.status,
                    value |-> r.value, eof |-> r.c.eof]
    /\ UNCHANGED file
    /\ UNCHANGED lex_others

Cursor == [p |-> cur, eof |-> FALSE]

NextItem == \E indirect \in BOOLEAN : LexCall("next_item", next_item(Cursor, indirect))
NextToken == LexCall("next_token", next_token(Cursor))
ReadNumber == LexCall("read_number", read_number(Cursor, FALSE))
EatWhitespace == LexCall("eat_whitespace", eat_whitespace(Cursor))
JumpToNextLine == LexCall("jump_to_next_line", jump_to_next_line(Cursor))

LexNext ==
    \/ NextItem
    \/ NextToken
    \/ ReadNumber
    \/ EatWhitespace
    \/ JumpToNextLine

(***************************************************************************)
(* What the file holds, stated without cursors: First(i, S) is the first   *)
(* position at or after i whose byte is not in S (positions count the      *)
(* bytes before them).                                                     *)
(***************************************************************************)
First(i, bytes) ==
    CHOOSE j \in i..Len(file) :
        /\ \A k \in (i + 1)..j : file[k] \in bytes
        /\ j < Len(file) => file[j + 1] \notin bytes
Text(i, j) == SubSeq(file, i + 1, j)
\* the number that starts behind the whitespace at i ends at NumberEnd(i)
NumberStart(i) == First(i, WHITESPACE)
NumberEnd(i) == First(NumberStart(i), NUMBER_CHARS)
NumberText(i) == Text(NumberStart(i), NumberEnd(i))
\* the token that starts behind the whitespace at i is the keyword R
KeywordRAt(i) ==
    LET s == First(i, WHITESPACE)
    IN  /\ s + 1 < Len(file)
        /\ file[s + 1] = 82
        /\ file[s + 2] \in DELIMITERS \cup WHITESPACE
\* integer, integer, R
ReferenceAt(i) ==
    /\ IsIntegerLiteral(NumberText(i))
    /\ IsIntegerLiteral(NumberText(NumberEnd(i)))
    /\ KeywordRAt(NumberEnd(NumberEnd(i)))

LastItem == lex_last.op = "next_item" /\ lex_last.status = "ok"
LastNumeric == LastItem /\ lex_last.value.kind \in {"Integer", "Real", "Reference"}

\* C5: a numeric item is a Reference exactly when the input continues as
\* integer, integer, R, with the cursor behind the R; otherwise it is the
\* first number alone, Integer or Real, with the cursor behind that number.
C5_NumberOrReference ==
    LastNumeric =>
        LET s == lex_last.start
            second == NumberEnd(s)
        IN  IF ReferenceAt(s)
            THEN /\ lex_last.value.kind = "Reference"
                 /\ lex_last.value.identifier = IntValue(NumberText(s))
                 /\ lex_last.value.generation = IntValue(NumberText(second))
                 /\ cur = First(NumberEnd(second), WHITESPACE) + 1
            ELSE /\ lex_last.value.kind =
                        (IF IsIntegerLiteral(NumberText(s)) THEN "Integer" ELSE "Real")
                 /\ lex_last.value.text = NumberText(s)
                 /\ cur = NumberEnd(s)

\* the lookahead read a second integer and a token that is not R
C5_Witness ==
    /\ LastNumeric
    /\ lex_last.value.kind = "Integer"
    /\ IsIntegerLiteral(NumberText(NumberEnd(lex_last.start)))
    /\ ~ReferenceAt(lex_last.start)
    /\ cur = NumberEnd(lex_last.start)

ParseErrors == {"ValueError", "struct.error", "binascii.Error",
                "UnicodeEncodeError", "KeyError", "TypeError",
                "AssertionError"}

\* C6: an operation that met the end of the file (a read came back short
\* or empty) ends with a parse error: it neither loops forever nor returns.
C6_TruncationIsFatal ==
    (lex_last.op # "none" /\ lex_last.eof) => lex_last.status \in ParseErrors

Count(i, j, byte) == Cardinality({k \in (i + 1)..j : file[k] = byte})
\* closing minus opening parentheses between positions i and j
Unbalance(i, j) == Count(i, j, RPAREN) - Count(i, j, LPAREN)

\* C8: a literal string without escapes ends at the first unbalanced ')'
\* and its decoded bytes are the bytes before it, nested parentheses
\* included.
C8_ParenthesesKept ==
    LET open == First(lex_last.start, WHITESPACE) + 1
    IN  (/\ LastItem
         /\ lex_last.value.kind = "String"
         /\ Count(open, cur, BACKSLASH) = 0) =>
            /\ Unbalance(open, cur) = 1
            /\ \A k \in open..(cur - 1) : Unbalance(open, k) <= 0
            /\ lex_last.value.bytes = Text(open, cur - 1)

(***************************************************************************)
(* Construction of a PDFReader (__init__): find_xref_offset, the newest    *)
(* cross-reference table, and the trailers with their Prev tables.  The    *)
(* file is rendered byte by byte from a layout (its sections in the order  *)
(* they were written) and parsed with the lexer above.                     *)
(***************************************************************************)
KEYWORD_xref == <<120, 114, 101, 102>>
KEYWORD_trailer == <<116, 114, 97, 105, 108, 101, 114>>
KEYWORD_startxref == <<115, 116, 97, 114, 116, 120, 114, 101, 102>>
\* line 358: b'%%EOF'
EOF_TOKEN == <<37, 37, 69, 79, 70>>
NAME_XRefStm == <<88, 82, 101, 102, 83, 116, 109>>
NAME_Prev == <<80, 114, 101, 118>>
NAME_Size == <<83, 105, 122, 101>>
NAME_Root == <<82, 111, 111, 116>>
\* line 313: self.file.read(20)
RECORD_LENGTH == 20
\* lines 314, 318: ord(b'n'), ord(b'f')
MARKER_n == 110
MARKER_f == 102
\* line 319
FREE_GENERATION == 65535

Range(s) == {s[i] : i \in DOMAIN s}

\* lines 313-319: one record of a subsection; the value is the table
xref_record(xref, identifier, line) ==
    IF Len(line) < 18 THEN [status |-> "IndexError", value |-> xref]
    ELSE IF line[18] = MARKER_n
    THEN IF IsIntegerLiteral(SubSeq(line, 1, 10))
              /\ IsIntegerLiteral(SubSeq(line, 12, 16))
         THEN [status |-> "ok",
               value |-> With(xref, identifier, IntValue(SubSeq(line, 1, 10)))]
         ELSE [status |-> "ValueError", value |-> xref]
    ELSE IF line[18] # MARKER_f
    THEN [status |-> "AssertionError", value |-> xref]
    ELSE IF ~IsIntegerLiteral(SubSeq(line, 12, 16))
    THEN [status |-> "ValueError", value |-> xref]
    ELSE IF IntValue(SubSeq(line, 12, 16)) # FREE_GENERATION
    THEN [status |-> "AssertionError", value |-> xref]
    ELSE [status |-> "ok", value |-> xref]

\* lines 312-319: for identifier in range(first, first + total)
RECURSIVE xref_records(_, _, _, _)
xref_records(c, xref, identifier, stop) ==
    IF identifier >= stop THEN Result(c, "ok", xref)
    ELSE Bind(Read(c, RECORD_LENGTH), LAMBDA line :
             Bind(xref_record(xref, identifier, line.data), LAMBDA r :
                 IF r.status # "ok" THEN Result(line.c, r.status, r.value)
                 ELSE xref_records(line.c, r.value, identifier + 1, stop)))

\* lines 320-321: except ValueError: break
except_ValueError(r) ==
    IF r.status = "ValueError" THEN Result(r.c, "ok", r.value) ELSE r

\* lines 308-321: the subsections, up to the header that is no number.  A
\* Real in a header is taken as a TypeError.
RECURSIVE xref_subsections(_, _)
xref_subsections(c, xref) ==
    Bind(read_number(c, FALSE), LAMBDA first :
        IF first.status # "ok"
        THEN except_ValueError(Result(first.c, first.status, xref))
        ELSE Bind(read_number(first.c, FALSE), LAMBDA total :
            IF total.status # "ok"
            THEN except_ValueError(Result(total.c, total.status, xref))
            ELSE Bind(jump_to_next_line(total.c), LAMBDA line :
                IF line.status # "ok" THEN Result(line.c, line.status, xref)
                ELSE IF first.value.kind # "Integer"
                        \/ total.value.kind # "Integer"
                THEN Result(line.c, "TypeError", xref)
                ELSE Bind(xref_records(line.c, xref, first.value.value,
                              first.value.value + total.value.value),
                          LAMBDA records :
                    IF records.status = "ok"
                    THEN xref_subsections(records.c, records.value)
                    ELSE except_ValueError(records)))))

\* PDFReader.parse_xref_table: the value is the table, identifier -> address
parse_xref_table(c, offset) ==
    Bind(next_token(SeekTo(c, offset)), LAMBDA token :
        IF token.value # KEYWORD_xref
        THEN Result(token.c, "AssertionError", <<>>)
        ELSE xref_subsections(token.c, <<>>))

\* lines 351-361: the loop, from offset downwards; -1 when the offset
\* becomes negative
RECURSIVE find_startxref(_)
find_startxref(offset) ==
    IF offset < 0 THEN -1
    ELSE IF Read([p |-> offset, eof |-> FALSE], 9).data = KEYWORD_startxref
    THEN offset
    ELSE find_startxref(offset - 1)

\* PDFReader.find_xref_offset; the value is the offset
find_xref_offset ==
    Bind(find_startxref(Len(file) - 5), LAMBDA offset :
        IF offset < 0
        THEN Result([p |-> 0, eof |-> FALSE], "OSError", NoValue)
        ELSE Bind(jump_to_next_line([p |-> offset + 9, eof |-> FALSE]),
                  LAMBDA line :
            IF line.status # "ok" THEN line
            ELSE Bind(read_number(line.c, FALSE), LAMBDA number :
                IF number.status # "ok" THEN number
                ELSE Bind(jump_to_next_line(number.c), LAMBDA line2 :
                    IF line2.status # "ok" THEN line2
                    ELSE Bind(Read(line2.c, 5), LAMBDA marker :
                        IF marker.data # EOF_TOKEN
                        THEN Result(marker.c, "ValueError", NoValue)
                        ELSE IF number.value.kind # "Integer"
                        THEN Result(marker.c, "TypeError", NoValue)
                        ELSE Result(marker.c, "ok",
                                    number.value.value))))))

\* lines 276-277: prev_xref.update(self._xref); self._xref = prev_xref
update_older_wins(prev_xref, xref) ==
    [i \in DOMAIN prev_xref \cup DOMAIN xref |->
        IF i \in DOMAIN prev_xref THEN prev_xref[i] ELSE xref[i]]
update(prev_xref, xref) ==
    [i \in DOMAIN prev_xref \cup DOMAIN xref |->
        IF i \in DOMAIN xref THEN xref[i] ELSE prev_xref[i]]

\* what one call of parse_trailer did before it recursed or returned
Level(c, status, xref, trailer_dict, prev) ==
    [c |-> c, status |-> status, xref |-> xref, trailer_dict |-> trailer_dict,
     prev |-> prev]

\* PDFReader.parse_trailer, one call: prev is the offset of the table it
\* merged and after which it recurses, -1 when it returns.  With XRefStm,
\* parse_xref_stream ends in sys.exit() when nothing was raised before.
parse_trailer(c, xref) ==
    Bind(next_token(c), LAMBDA token :
        IF token.value # KEYWORD_trailer
        THEN Level(token.c, "AssertionError", xref, NoValue, -1)
        ELSE Bind(jump_to_next_line(token.c), LAMBDA line :
            IF line.status # "ok"
            THEN Level(line.c, line.status, xref, NoValue, -1)
            ELSE Bind(next_item(line.c, FALSE), LAMBDA trailer_dict :
                IF trailer_dict.status # "ok"
                THEN Level(trailer_dict.c, trailer_dict.status, xref, NoValue, -1)
                ELSE IF trailer_dict.value.kind # "Dictionary"
                THEN Level(trailer_dict.c, "TypeError", xref, NoValue, -1)
                ELSE IF Lookup(trailer_dict.value.entries, NAME_XRefStm).kind
                            # "none"
                THEN Level(trailer_dict.c, "SystemExit", xref,
                           trailer_dict.value, -1)
                ELSE Bind(Lookup(trailer_dict.value.entries, NAME_Prev),
                          LAMBDA prev :
                    IF prev.kind = "none"
                    THEN Level(trailer_dict.c, "ok", xref,
                               trailer_dict.value, -1)
                    ELSE IF prev.kind # "Integer"
                    THEN Level(trailer_dict.c, "TypeError", xref,
                               trailer_dict.value, -1)
                    ELSE Bind(parse_xref_table(trailer_dict.c, prev.value),
                              LAMBDA prev_xref :
                        IF prev_xref.status # "ok"
                        THEN Level(prev_xref.c, prev_xref.status, xref,
                                   trailer_dict.value, -1)
                        ELSE Level(prev_xref.c, "ok",
                                   update(prev_xref.value, xref),
                                   trailer_dict.value, prev.value))))))

(***************************************************************************)
(* The files.  A section is a table and its trailer:                       *)
(*   [first, records, second, prev, xrefstm]                               *)
(* a subsection that starts at identifier first with one record per kind   *)
(* in records, a second subsection of one in-use record when second, and   *)
(* a trailer whose Prev names section prev (0: no Prev) and which has an   *)
(* XRefStm key when xrefstm.  startxref names the last section.            *)
(***************************************************************************)
MaxSections == 2
MaxRecords == 2
\* calls of parse_xref_table in one construction
MaxChain == MaxSections + 2

WellFormedKinds == {"n", "f"}
\* never accepted: a free record of generation 0, an in-use record with a
\* letter in its offset or in its generation, a free record with a letter
\* in its generation, a record that is neither n nor f
MalformedKinds == {"f_generation", "n_offset", "n_generation",
                   "f_unparsed", "marker"}

RECURSIVE Decimal(_, _)
Decimal(n, width) ==
    IF width = 0 THEN <<>>
    ELSE Decimal(n \div 10, width - 1) \o <<48 + (n % 10)>>

\* the address the record of identifier in section k gives
RecordAddress(k, identifier) == 100 * k + identifier
\* the identifier the second subsection starts at
SecondFirst == MaxRecords + 5

RecordLine(kind, address) ==
    (IF kind = "n_offset" THEN Decimal(address, 9) \o <<120>>
     ELSE IF kind \in {"n", "n_generation", "marker"} THEN Decimal(address, 10)
     ELSE Decimal(0, 10))
    \o <<32>>
    \o (IF kind \in {"f"} THEN Decimal(FREE_GENERATION, 5)
        ELSE IF kind \in {"n_generation", "f_unparsed"}
        THEN Decimal(0, 4) \o <<120>>
        ELSE Decimal(0, 5))
    \o <<32>>
    \o (IF kind \in {"n", "n_offset", "n_generation"} THEN <<MARKER_n>>
        ELSE IF kind = "marker" THEN <<120>>
        ELSE <<MARKER_f>>)
    \o <<32, LF>>

RECURSIVE RecordLines(_, _, _)
RecordLines(kinds, k, identifier) ==
    IF kinds = <<>> THEN <<>>
    ELSE RecordLine(Head(kinds), RecordAddress(k, identifier))
         \o RecordLines(Tail(kinds), k, identifier + 1)

Subsection(first, kinds, k) ==
    Decimal(first, 1) \o <<32>> \o Decimal(Len(kinds), 1) \o <<LF>>
    \o RecordLines(kinds, k, first)

\* section k of a file, its Prev section at prev_offset
Section(s, k, prev_offset) ==
    KEYWORD_xref \o <<LF>>
    \o Subsection(s.first, s.records, k)
    \o (IF s.second THEN Subsection(SecondFirst, <<"n">>, k) ELSE <<>>)
    \o KEYWORD_trailer \o <<LF>>
    \o <<60, 60, 32, 47>> \o NAME_Size \o <<32, 57, 32, 47>> \o NAME_Root
    \o <<32, 49, 32, 48, 32>> \o KEYWORD_R
    \o (IF s.xrefstm THEN <<32, 47>> \o NAME_XRefStm \o <<32>> \o Decimal(0, 10)
        ELSE <<>>)
    \o (IF s.prev # 0 THEN <<32, 47>> \o NAME_Prev \o <<32>>
                           \o Decimal(prev_offset, 10)
        ELSE <<>>)
    \o <<32, 62, 62, LF>>

\* b'%PDF\n'
FileHeader == <<37, 80, 68, 70, LF>>

RECURSIVE SectionOffset(_, _)
SectionOffset(sections, k) ==
    IF k = 1 THEN Len(FileHeader)
    ELSE SectionOffset(sections, k - 1)
         + Len(Section(sections[k - 1], k - 1, 0))

RECURSIVE Sections(_, _)
Sections(sections, k) ==
    IF k > Len(sections) THEN <<>>
    ELSE Section(sections[k], k,
                 IF sections[k].prev = 0 THEN 0
                 ELSE SectionOffset(sections, sections[k].prev))
         \o Sections(sections, k + 1)

FileOf(sections) ==
    FileHeader \o Sections(sections, 1)
    \o KEYWORD_startxref \o <<LF>>
    \o Decimal(SectionOffset(sections, Len(sections)), 10)
    \o <<LF>> \o EOF_TOKEN

RecordKinds(kinds) == UNION {[1..n -> kinds] : n \in 1..MaxRecords}

\* one table, any records, and its trailer
TableLayouts ==
    {<<s>> : s \in [first : {1},
                    records : RecordKinds(WellFormedKinds \cup MalformedKinds),
                    second : BOOLEAN, prev : {0}, xrefstm : BOOLEAN]}

\* up to MaxSections generations of well-formed tables, each with a record
\* for identifier 1 and one for identifier 2.  A Prev names an older
\* section; the Prev of the oldest section, if any, closes a cycle.
ChainLayouts ==
    UNION {{sections \in [1..n -> [first : {1},
                                   records : [1..2 -> WellFormedKinds],
                                   second : {FALSE}, prev : 0..n,
                                   xrefstm : {FALSE}]] :
               \A k \in 2..n : sections[k].prev < k} : n \in 1..MaxSections}

ReaderInit ==
    /\ layout \in TableLayouts \cup ChainLayouts
    /\ file = FileOf(layout)
    /\ cur = 0
    /\ _xref = <<>>
    /\ init_pc = "find_xref_offset"
    /\ init_error = "none"
    /\ xref_offset = 0
    /\ chain = <<>>
    /\ trailer = NoValue
    /\ catalog = NoValue
    /\ _max_identifier_in_file = 0

\* what the construction leaves alone
reader_others == <<pngvars, objects, cache, pos, next_obj, doc_ops, returned,
                   deleted, doc_last, lex_last, file, layout>>

\* an exception leaves __init__
Raised(c, status) ==
    /\ init_pc' = "raised"
    /\ init_error' = status
    /\ cur' = c.p

\* line 31: xref_offset = self.find_xref_offset()
FindXrefOffset ==
    /\ init_pc = "find_xref_offset"
    /\ LET r == find_xref_offset
       IN  IF r.status # "ok"
           THEN Raised(r.c, r.status) /\ UNCHANGED xref_offset
           ELSE /\ init_pc' = "parse_xref_table"
                /\ xref_offset' = r.value
                /\ cur' = r.c.p
                /\ UNCHANGED init_error
    /\ UNCHANGED <<_xref, chain, trailer, catalog, _max_identifier_in_file>>
    /\ UNCHANGED reader_others

\* line 32: self._xref = self.parse_xref_table(xref_offset)
ParseXrefTable ==
    /\ init_pc = "parse_xref_table"
    /\ LET r == parse_xref_table(Cursor, xref_offset)
       IN  IF r.status # "ok"
           THEN Raised(r.c, r.status) /\ UNCHANGED <<_xref, chain>>
           ELSE /\ init_pc' = "parse_trailer"
                /\ _xref' = r.value
                /\ chain' = <<xref_offset>>
                /\ cur' = r.c.p
                /\ UNCHANGED init_error
    /\ UNCHANGED <<xref_offset, trailer, catalog, _max_identifier_in_file>>
    /\ UNCHANGED reader_others

\* lines 34 and 266-279: one call of parse_trailer, the first from __init__
\* and each further one from the call before it; the trailer __init__ gets
\* is the one of the first call
ParseTrailer ==
    /\ init_pc = "parse_trailer"
    /\ Len(chain) < MaxChain
    /\ LET r == parse_trailer(Cursor, _xref)
       IN  /\ trailer' = IF trailer = NoValue THEN r.trailer_dict ELSE trailer
           /\ IF r.status # "ok"
              THEN Raised(r.c, r.status) /\ UNCHANGED <<_xref, chain>>
              ELSE /\ init_pc' = IF r.prev >= 0 THEN "parse_trailer" ELSE "return"
                   /\ _xref' = r.xref
                   /\ chain' = IF r.prev >= 0 THEN Append(chain, r.prev)
                               ELSE chain
                   /\ cur' = r.c.p
                   /\ UNCHANGED init_error
    /\ UNCHANGED <<xref_offset, catalog, _max_identifier_in_file>>
    /\ UNCHANGED reader_others

\* lines 35-41: Size and Root are required
Finish ==
    /\ init_pc = "return"
    /\ LET size == Lookup(trailer.entries, NAME_Size)
           root == Lookup(trailer.entries, NAME_Root)
       IN  IF size.kind = "none" \/ root.kind = "none"
           THEN /\ init_pc' = "raised"
                /\ init_error' = "KeyError"
                /\ UNCHANGED <<catalog, _max_identifier_in_file>>
           ELSE /\ init_pc' = "done"
                /\ _max_identifier_in_file' = size.value - 1
                /\ catalog' = root
                /\ UNCHANGED init_error
    /\ UNCHANGED <<cur, _xref, xref_offset, chain, trailer>>
    /\ UNCHANGED reader_others

ReaderNext ==
    \/ FindXrefOffset
    \/ ParseXrefTable
    \/ ParseTrailer
    \/ Finish

(***************************************************************************)
(* What the file says, read off the layout.                                *)
(***************************************************************************)
\* the records of section k, by identifier
KindOf(k) ==
    [i \in layout[k].first..(layout[k].first + Len(layout[k].records) - 1) |->
        layout[k].records[i - layout[k].first + 1]]
    @@ (IF layout[k].second THEN SecondFirst :> "n" ELSE <<>>)
\* the identifiers section k defines as in use, with their addresses
InUse(k) ==
    [i \in {j \in DOMAIN KindOf(k) : KindOf(k)[j] = "n"} |-> RecordAddress(k, i)]
Malformed(k) == \E i \in DOMAIN KindOf(k) : KindOf(k)[i] \in MalformedKinds
\* the generations from startxref along Prev, newest first
RECURSIVE Generations(_, _)
Generations(k, n) ==
    IF k = 0 \/ n = 0 THEN <<>>
    ELSE <<k>> \o Generations(layout[k].prev, n - 1)
Chain == Generations(Len(layout), MaxChain)
\* the sections whose table parse_xref_table returned
Returned == {k \in DOMAIN layout : SectionOffset(layout, k) \in Range(chain)}

\* C1: after construction the table holds the identifiers in use in some
\* generation, each with the address the newest generation that has it in
\* use gives.
C1_NewestGenerationWins ==
    init_pc = "done" =>
        /\ DOMAIN _xref = UNION {DOMAIN InUse(Chain[g]) : g \in DOMAIN Chain}
        /\ \A i \in DOMAIN _xref :
              \E g \in DOMAIN Chain :
                  /\ i \in DOMAIN InUse(Chain[g])
                  /\ \A newer \in 1..(g - 1) : i \notin DOMAIN InUse(Chain[newer])
                  /\ _xref[i] = InUse(Chain[g])[i]

\* two generations: an identifier in use in both, and one in use only in
\* the older
C1_Witness ==
    /\ init_pc = "done"
    /\ Len(Chain) >= 2
    /\ \E i \in DOMAIN InUse(Chain[1]) : i \in DOMAIN InUse(Chain[2])
    /\ \E i \in DOMAIN InUse(Chain[2]) : i \notin DOMAIN InUse(Chain[1])

\* C9: parse_xref_table returns no table for a section with a malformed
\* record.
C9_MalformedRecordAborts ==
    \A k \in Returned : ~Malformed(k)

\* C11: following Prev, no cross-reference section is parsed twice: the
\* offsets parse_xref_table was called with and returned from are distinct.
C11_EachSectionParsedOnce ==
    \A i, j \in DOMAIN chain : chain[i] = chain[j] => i = j

LastGet == doc_last.op = "get"
LastDelete == doc_last.op = "delete"

\* C2: while an identifier is not deleted, all its resolutions (nested ones
\* included) return one instance, which is the cached one; a resolution of
\* an identifier resolved before touches neither the file nor the cursor.
C2_SameCachedInstance ==
    /\ \A i \in DOMAIN returned :
          /\ Cardinality(returned[i]) <= 1
          /\ returned[i] # {} => (i \in DOMAIN cache /\ returned[i] = {cache[i]})
    /\ (LastGet /\ doc_last.status = "ok") =>
          /\ doc_last.identifier \in DOMAIN cache
          /\ cache[doc_last.identifier] = doc_last.obj
          /\ doc_last.seen_before =>
                (doc_last.io = 0 /\ pos = doc_last.pos_before)

C2_Witness ==
    LastGet /\ doc_last.status = "ok" /\ doc_last.seen_before

\* C3 as stated: a resolution of an identifier that was resolved and then
\* deleted parses the object again and returns it.
C3_ReparsedAfterDelete ==
    (LastGet /\ doc_last.deleted_before = "resolved") =>
        (doc_last.status = "ok" /\ doc_last.io > 0)

\* C3 amended: a resolution of an identifier that was resolved and then
\* deleted raises KeyError: it returns no instance, stale or new, and
\* touches neither the file, the cursor nor the cache.
C3_KeyErrorAfterDelete ==
    (LastGet /\ doc_last.deleted_before = "resolved") =>
        /\ doc_last.status = "KeyError"
        /\ doc_last.io = 0
        /\ pos = doc_last.pos_before
        /\ doc_last.identifier \notin DOMAIN cache

C3_Witness == LastGet /\ doc_last.deleted_before = "resolved"

\* C4: an identifier on which delete was called is in neither the table nor
\* the cache, whether it had been resolved before the delete or not.
C4_DeleteRemovesFromBoth ==
    /\ \A i \in DOMAIN deleted :
          deleted[i] # "no" => (i \notin DOMAIN _xref /\ i \notin DOMAIN cache)
    /\ LastDelete =>
          /\ doc_last.identifier \notin DOMAIN _xref
          /\ doc_last.identifier \notin DOMAIN cache
    /\ DOMAIN cache \subseteq DOMAIN _xref

C4_Witness ==
    \E i, j \in DOMAIN deleted :
        deleted[i] = "resolved" /\ deleted[j] = "fresh"

\* C10: a get that returns leaves the cursor where it was, on a miss (also
\* when parsing resolved other identifiers) and on a hit, and a hit does not
\* touch the file.
C10_CursorUnchanged ==
    (LastGet /\ doc_last.status = "ok") =>
        /\ pos = doc_last.pos_before
        /\ doc_last.cached_before => doc_last.io = 0

C10_Witness ==
    /\ LastGet /\ doc_last.status = "ok" /\ ~doc_last.cached_before
    /\ Cardinality(doc_last.events) > 1

(***************************************************************************)
(* Specifications: each one runs one part of the reader and leaves the     *)
(* other parts in their initial state.                                     *)
(***************************************************************************)
PngIdle ==
    /\ last_values = <<>>
    /\ png_source = [tag |-> NONE, row |-> <<>>]
    /\ png_orig = <<>>
    /\ png_out = <<>>
    /\ png_rows = 0

DocIdle ==
    /\ objects = <<>>
    /\ _xref = <<>>
    /\ cache = <<>>
    /\ pos = 0
    /\ next_obj = 1
    /\ doc_ops = 0
    /\ returned = <<>>
    /\ deleted = <<>>
    /\ doc_last = NoCall

LexIdle ==
    /\ file = <<>>
    /\ cur = 0
    /\ lex_last = NoLexCall

ReaderIdle ==
    /\ init_pc = "idle"
    /\ init_error = "none"
    /\ xref_offset = 0
    /\ trailer = NoValue
    /\ catalog = NoValue
    /\ _max_identifier_in_file = 0
    /\ layout = <<>>
    /\ chain = <<>>

InitPNG == PngInit /\ DocIdle /\ LexIdle /\ ReaderIdle
SpecPNG == InitPNG /\ [][PngNext]_vars

InitDoc == DocInit /\ PngIdle /\ LexIdle /\ ReaderIdle
SpecDoc == InitDoc /\ [][DocNext]_vars

InitLex == LexInit /\ PngIdle /\ DocIdle /\ ReaderIdle
SpecLex == InitLex /\ [][LexNext]_vars

InitReader ==
    /\ ReaderInit
    /\ PngIdle
    /\ objects = <<>> /\ cache = <<>> /\ pos = 0 /\ next_obj = 1
    /\ doc_ops = 0 /\ returned = <<>> /\ deleted = <<>> /\ doc_last = NoCall
    /\ lex_last = NoLexCall
SpecReader == InitReader /\ [][ReaderNext]_vars

=============================================================================
